---- MODULE Spec2Model ----
(***************************************************************************)
(* Model of the two ICMP probes of the repository: my_ping.py (ping) and   *)
(* my_traceroute.py (traceroute).  One run of one program is modelled,     *)
(* statement by statement, together with its environment: the clock read   *)
(* by time.time() and the packets the network makes recvfrom return.  The  *)
(* socket's receive queue is not kept: the program sees it only through    *)
(* what select and recvfrom return, and any sequence of reads, at any      *)
(* instants, is possible traffic.  An uncaught exception ends the run at   *)
(* pc = "raised", an error return at "aborted", a normal return at "done". *)
(* The two pure functions of both files, checksum and create_packet, are   *)
(* operators; SpecCall is the specification of single calls of them.       *)
(***************************************************************************)
EXTENDS Integers, Sequences, FiniteSets, TLC

VARIABLES
    mode,           \* which program runs: "ping" or "traceroute"
    net,            \* environment: "any" (arbitrary inbound traffic), "noreply" (no answer
                    \* ever arrives) or "path" (a chain of hops that answer)
    dest,           \* "path" only: the hop number of the destination (0 under "any")
    count,          \* ping(count=...)
    timeout,        \* ping(timeout=...); traceroute's local timeout
    pc,             \* position of the program
    error,          \* the error message printed, "none" if none
    i,              \* ping's loop variable (-1 before the first iteration)
    ttl,            \* traceroute's loop variable (0 before the first iteration)
    packet_id,      \* random.randint(1, 65535), 0 before it is drawn
    sockOpen,       \* the raw socket exists and has not been closed
    opens,          \* number of sockets created
    closes,         \* number of sock.close() calls
    sockTtl,        \* the socket's IP_TTL option (0: never set, the system default)
    sent,           \* the packets handed to sock.sendto, in order
    now,            \* the value time.time() returns
    time_received,  \* receive_*'s local: the clock at entry
    selectUntil,    \* the instant at which the pending select.select gives up
    packet,         \* receive_*'s local: what recvfrom returned last in this attempt
    result,         \* what receive_* returned to the loop
    obs,            \* the outcome lines printed so far, one per attempt
    timeout_count,  \* traceroute's dict ttl -> unanswered probes
    sleeps,         \* number of time.sleep calls made by the loop
    answered,       \* "path" only: number of probes the path has answered
    args,           \* SpecCall: the arguments of the call
    ret             \* SpecCall: what the call returned, or that it raised

vars == <<mode, net, dest, count, timeout, pc, error, i, ttl, packet_id, sockOpen, opens,
          closes, sockTtl, sent, now, time_received, selectUntil, packet,
          result, obs, timeout_count, sleeps, answered, args, ret>>

\* The parameters and the environment choice never change during a run.
params == <<mode, net, dest, count, timeout>>
\* The socket's bookkeeping.
sockVars == <<sockOpen, opens, closes, sockTtl>>
\* The locals of receive_ping / receive_traceroute.
recvLocals == <<time_received, selectUntil, packet>>
\* The call of a pure function under SpecCall.
callVars == <<args, ret>>

----------------------------------------------------------------------------
(* Bounds of the model *)

MaxCount == 2        \* largest -c value explored
MaxTimeoutArg == 2   \* largest -t value explored (clock ticks)
MaxTime == 6         \* the clock is observed up to this tick
MaxId == 1           \* identifiers are drawn from 1..MaxId, inbound ones from 0..MaxId
MaxLate == 1         \* an answer may arrive up to this many attempts late
MaxLen == 4          \* longest buffer handed to checksum under SpecCall
MaxDataSize == 3     \* payload sizes 0..MaxDataSize, and as many past one byte's range

(* Program constants *)

max_hops == 30       \* traceroute: max_hops = 30
trace_timeout == 5   \* traceroute: timeout = 5
EchoReply == 0       \* ICMP type tested by `type == 0`
TimeExceeded == 11   \* ICMP type tested by `type == 11`
EchoRequest == 8     \* ICMP type written by create_packet
IcmpStart == 20      \* packet[20:28]
IcmpEnd == 28        \* packet[20:28]
HeaderSize == 8      \* struct size of '!BBHHH'
Mask16 == 65535      \* 0xFFFF
ByteShift == 256     \* the factor of `<< 8`
ByteRange == 256     \* i % 256
Sequence == 1        \* the sequence number written by create_packet

----------------------------------------------------------------------------
(* Packets *)

Min(a, b) == IF a < b THEN a ELSE b
Max(a, b) == IF a > b THEN a ELSE b

\* An inbound packet as the code sees it: its length, the ICMP type and identifier
\* in its bytes 20..27, and (not on the wire) the attempt it answers, 0 for none.
NoPacket == [len |-> 0, type |-> 0, id |-> 0, probe |-> 0]

InTypes == {EchoReply, EchoRequest, TimeExceeded}

\* Traffic that answers no probe of this run: a truncated packet, or a full one
\* of any type and identifier.
Stray ==
    {[len |-> IcmpEnd - 1, type |-> 0, id |-> 0, probe |-> 0]}
    \cup {[len |-> IcmpEnd, type |-> t, id |-> d, probe |-> 0] :
             t \in InTypes, d \in 0..MaxId}

\* Answers to the probes of this run: to the latest one, and late answers to up
\* to MaxLate earlier ones.
Answers ==
    {[len |-> IcmpEnd, type |-> t, id |-> packet_id, probe |-> p] :
        t \in {EchoReply, TimeExceeded},
        p \in {q \in (Len(sent) - MaxLate)..Len(sent) : q >= 1}}

\* The answer of the path to the probe sent with TTL t: Time Exceeded from the
\* hop where the TTL runs out, Echo Reply from the destination.
HopAnswer(t, d) ==
    [len |-> IcmpEnd,
     type |-> IF t < dest THEN TimeExceeded ELSE EchoReply,
     id |-> d,
     probe |-> t]

\* Traffic under "noreply": full packets that are neither an Echo Reply nor a
\* Time Exceeded message, so that neither program takes them for an answer.
Unrelated == {p \in Stray : p.len >= IcmpEnd /\ p.type = EchoRequest}

\* What recvfrom can return when select reports the socket readable.  Under
\* "any" it is any stray packet or answer, under "noreply" unrelated traffic
\* only.  On a "path" it is the path's answer to the latest probe, once (an Echo
\* Reply carries the probe's identifier; the identifier field of a Time Exceeded
\* message is whatever the hop put there).
Arrivals ==
    IF net = "any" THEN Stray \cup Answers
    ELSE IF net = "noreply" THEN Unrelated
    ELSE IF answered < Len(sent)
    THEN {HopAnswer(Len(sent), d) :
             d \in {e \in 0..MaxId : Len(sent) >= dest => e = packet_id}}
    ELSE {}

\* icmp_header = packet[20:28]: the number of bytes the slice holds.
SliceLen(p) == Max(0, Min(p.len, IcmpEnd) - IcmpStart)

\* struct.unpack('!BBHHH', icmp_header) raises struct.error unless it gets 8 bytes.
UnpackFails(p) == SliceLen(p) # HeaderSize

----------------------------------------------------------------------------
(* Results of a receive call *)

NoResult == [kind |-> "none", probe |-> 0]
TimedOutResult == [kind |-> "TimedOut", probe |-> 0]

\* Variant of PingQualifies: the identifier is not compared.
PingQualifiesAnyId(p, id) == p.type = EchoReply

\* receive_ping: `if type == 0 and packet_id == id: return addr, rtt`
PingQualifies(p, id) == p.type = EchoReply /\ p.id = id

\* receive_traceroute: `if packet_id != id or packet_id == id:`
TrIdAccepted(p, id) == p.id # id \/ p.id = id

\* receive_traceroute: what a full packet is classified as ("none": ignored).
TrClassify(p, id) ==
    IF TrIdAccepted(p, id)
    THEN IF p.type = EchoReply THEN "Reply"
         ELSE IF p.type = TimeExceeded THEN "Exceeded"
         ELSE "none"
    ELSE "none"

----------------------------------------------------------------------------
(* checksum and create_packet.  Bytes are the integers 0..255, a bytes object *)
(* is a sequence of them; Python's index k is the sequence's index k + 1.     *)

\* The arguments and the return value of a call, before there are any.
NoArgs == [source_string |-> <<>>, id |-> 0, data_size |-> 0]
NoReturn == [raised |-> FALSE, sum |-> 0, packet |-> <<>>]

\* for i in range(0, len(source_string) - count, 2):
\*     sum += (source_string[i] << 8) + (source_string[i + 1])
\* What the iterations i = lo, lo + 2, ..., hi - 2 add to sum (the additions
\* are grouped in halves, which keeps the evaluation shallow on long buffers).
RECURSIVE WordSum(_, _, _)
WordSum(s, lo, hi) ==
    IF hi - lo < 2 THEN 0
    ELSE IF hi - lo = 2 THEN (s[lo + 1] * ByteShift) + s[(lo + 1) + 1]
    ELSE LET mid == lo + 2 * ((hi - lo) \div 4)
         IN  WordSum(s, lo, mid) + WordSum(s, mid, hi)

\* while sum >> 16: sum = (sum >> 16) + (sum & 0xFFFF)
RECURSIVE Fold(_)
Fold(x) ==
    IF x \div (Mask16 + 1) # 0
    THEN Fold((x \div (Mask16 + 1)) + (x % (Mask16 + 1)))
    ELSE x

\* sum = ~sum & 0xFFFF, for a sum that fits 16 bits
Complement(x) == Mask16 - x

\* `if count: sum += source_string[i + 1]`, last being what the for loop left in i.
OddByte(s, last) == s[(last + 1) + 1]

\* checksum(source_string).  With an odd length the loop variable i is read
\* after the loop; it holds the last iteration's value n - 2, and no value at
\* all when the range was empty (then the read raises UnboundLocalError).
checksum(source_string) ==
    LET odd == Len(source_string) % 2      \* the code's local `count`
        n == Len(source_string) - odd
        last == n - 2                      \* the code's `i` after the loop
    IN  IF odd # 0 /\ n < 2
        THEN [raised |-> TRUE, sum |-> 0, packet |-> <<>>]
        ELSE [raised |-> FALSE,
              sum |-> Complement(Fold(WordSum(source_string, 0, n)
                                      + IF odd # 0 THEN OddByte(source_string, last) ELSE 0)),
              packet |-> <<>>]

\* struct.pack('!BBHHH', type, code, checksum, id, sequence): big-endian.
StructPack(type, code, sum, id, sequence) ==
    <<type, code,
      sum \div ByteShift, sum % ByteShift,
      id \div ByteShift, id % ByteShift,
      sequence \div ByteShift, sequence % ByteShift>>

\* Variant of PayloadByte: the index itself.
PayloadByteNoWrap(k) == k

\* i % 256
PayloadByte(k) == k % ByteRange

\* data = bytes([i % 256 for i in range(data_size)])
Payload(data_size) == [k \in 1..data_size |-> PayloadByte(k - 1)]

\* create_packet(id, data_size): the header with a zero checksum, the payload,
\* the checksum of both, the header again with the checksum in it.
create_packet(id, data_size) ==
    LET header == StructPack(EchoRequest, 0, 0, id, Sequence)
        data == Payload(data_size)
        checksum_val == checksum(header \o data)
    IN  IF checksum_val.raised
        THEN [raised |-> TRUE, sum |-> 0, packet |-> <<>>]
        ELSE [raised |-> FALSE,
              sum |-> 0,
              packet |-> StructPack(EchoRequest, 0, checksum_val.sum, id, Sequence) \o data]

----------------------------------------------------------------------------
(* Initial states *)

Init ==
    /\ mode \in {"ping", "traceroute"}
    /\ \/ /\ mode = "ping"
          /\ net \in {"any", "noreply"}
          /\ dest = 0
          /\ count \in 0..MaxCount
          /\ timeout \in 0..MaxTimeoutArg
       \/ /\ mode = "traceroute"
          /\ \/ net \in {"any", "noreply"} /\ dest = 0
             \/ net = "path" /\ dest \in 1..max_hops
          /\ count = 1
          /\ timeout = trace_timeout
    /\ pc = "socket"
    /\ error = "none"
    /\ i = -1
    /\ ttl = 0
    /\ packet_id = 0
    /\ sockOpen = FALSE
    /\ opens = 0
    /\ closes = 0
    /\ sockTtl = 0
    /\ sent = <<>>
    /\ now = 0
    /\ time_received = 0
    /\ selectUntil = 0
    /\ packet = NoPacket
    /\ result = NoResult
    /\ obs = <<>>
    /\ timeout_count = [t \in 1..max_hops |-> 0]
    /\ sleeps = 0
    /\ answered = 0
    /\ args = NoArgs
    /\ ret = NoReturn

----------------------------------------------------------------------------
(* Steps shared by the two programs (the code is the same in both files) *)

\* try: sock = socket.socket(AF_INET, SOCK_RAW, IPPROTO_ICMP)
\* except PermissionError: print(...); return
OpenSocket(ok) ==
    /\ pc = "socket"
    /\ IF ok
       THEN /\ sockOpen' = TRUE
            /\ opens' = opens + 1
            /\ pc' = "resolve"
            /\ UNCHANGED error
       ELSE /\ error' = "PermissionDenied"
            /\ pc' = "aborted"
            /\ UNCHANGED <<sockOpen, opens>>
    /\ UNCHANGED <<params, callVars, i, ttl, packet_id, closes, sockTtl, sent, now, recvLocals,
                   result, obs, timeout_count, sleeps, answered>>

\* Variant of ResolveFailed: the message is printed but the return is missing.
ResolveFailedNoReturn ==
    /\ error' = "ResolutionFailed"
    /\ pc' = "loop"
    /\ UNCHANGED <<packet_id, sockVars>>

\* Where the program goes when gethostbyname raises socket.gaierror:
\* print("Host resolution failed."); return
ResolveFailed ==
    /\ error' = "ResolutionFailed"
    /\ pc' = "aborted"
    /\ UNCHANGED <<packet_id, sockVars>>

\* try: host_ip = socket.gethostbyname(host)  except socket.gaierror: ...
\* print(header); packet_id = random.randint(1, 65535)
ResolveHost(ok, id) ==
    /\ pc = "resolve"
    /\ IF ok
       THEN /\ packet_id' = id
            /\ pc' = "loop"
            /\ UNCHANGED <<error, sockVars>>
       ELSE ResolveFailed
    /\ UNCHANGED <<params, callVars, i, ttl, sent, now, recvLocals, result, obs, timeout_count,
                   sleeps, answered>>

\* sock.sendto(packet, (host_ip, 0)): the packet leaves with the socket's TTL t.
SendTo(t) == Append(sent, [ttl |-> t, id |-> packet_id])

\* while time.time() - time_received < timeout
Waiting == now - time_received < timeout

\* while <guard>: ...   and, once the guard fails, the final return of None
RecvGuard ==
    /\ pc = "guard"
    /\ IF Waiting
       THEN /\ pc' = "arm"
            /\ UNCHANGED <<result, recvLocals>>
       ELSE /\ result' = TimedOutResult
            /\ pc' = "report"
            /\ time_received' = 0
            /\ selectUntil' = 0
            /\ UNCHANGED packet
    /\ UNCHANGED <<params, callVars,
                   error, i, ttl, packet_id, sockVars, sent, now, obs, timeout_count,
                   sleeps, answered>>

\* timeout - (time.time() - time_received)
Remaining == timeout - (now - time_received)

\* ready = select.select([sock], [], [], <remaining>)
\* The clock is read again here; select raises ValueError on a negative timeout.
\* Otherwise the call gives up at now + remaining.
RecvArm ==
    /\ pc = "arm"
    /\ IF Remaining < 0
       THEN /\ pc' = "raised"
            /\ UNCHANGED selectUntil
       ELSE /\ selectUntil' = now + Remaining
            /\ pc' = "select"
    /\ UNCHANGED <<params, callVars, error, i, ttl, packet_id, sockVars, sent, now, time_received,
                   packet, result, obs, timeout_count, sleeps, answered>>

\* Variant of RecvNotReady: an empty select ends the call as timed out.
RecvNotReadyGivesUp ==
    /\ pc = "select"
    /\ result' = TimedOutResult
    /\ pc' = "report"
    /\ UNCHANGED <<params, callVars, error, i, ttl, packet_id, sockVars, sent, now, recvLocals,
                   obs, timeout_count, sleeps, answered>>

\* select returns with nothing readable (its timeout elapsed, or it was cut
\* short): `if ready[0]` is false and the loop tests its guard again.
RecvNotReady ==
    /\ pc = "select"
    /\ pc' = "guard"
    /\ UNCHANGED <<params, callVars,
                   error, i, ttl, packet_id, sockVars, sent, now, recvLocals, result,
                   obs, timeout_count, sleeps, answered>>

\* Variant of RecvContinue: a read that does not qualify restarts the wait.
RecvContinueRestarts ==
    /\ pc' = "guard"
    /\ time_received' = now
    /\ UNCHANGED <<result, selectUntil>>

\* A read that does not end the call: back to the guard, the deadline untouched.
RecvContinue ==
    /\ pc' = "guard"
    /\ UNCHANGED <<result, time_received, selectUntil>>

\* A read that ends the call with `return addr, rtt[, reached]` (the call's
\* clock locals go out of scope).
RecvReturn(kind, p) ==
    /\ result' = [kind |-> kind, probe |-> p.probe]
    /\ pc' = "report"
    /\ time_received' = 0
    /\ selectUntil' = 0

\* struct.unpack raised struct.error: nothing catches it.
RecvRaise ==
    /\ pc' = "raised"
    /\ UNCHANGED <<result, time_received, selectUntil>>

\* sock.close()
CloseSocket ==
    /\ sockOpen' = FALSE
    /\ closes' = closes + 1
    /\ UNCHANGED <<opens, sockTtl>>

\* time.sleep(...) at the end of the loop body
Sleep ==
    /\ pc = "sleep"
    /\ sleeps' = sleeps + 1
    /\ pc' = "loop"
    /\ UNCHANGED <<params, callVars,
                   error, i, ttl, packet_id, sockVars, sent, now, recvLocals, result,
                   obs, timeout_count, answered>>

----------------------------------------------------------------------------
(* ping *)

PingSocket == mode = "ping" /\ \E ok \in BOOLEAN : OpenSocket(ok)

PingResolve == mode = "ping" /\ \E ok \in BOOLEAN, id \in 1..MaxId : ResolveHost(ok, id)

\* Variant of PingMore: the loop also ends after the first reply.
PingMoreUntilReply == i + 1 < count /\ \A k \in 1..Len(obs) : obs[k] # "Reply"

\* for i in range(count): is there another iteration?
PingMore == i + 1 < count

\* for i in range(count): packet = create_packet(...); sock.sendto(...); print
\* result = receive_ping(...)  ->  time_received = time.time()
PingSend ==
    /\ mode = "ping"
    /\ pc = "loop"
    /\ PingMore
    /\ i' = i + 1
    /\ sent' = SendTo(sockTtl)
    /\ time_received' = now
    /\ pc' = "guard"
    /\ UNCHANGED <<params, callVars,
                   error, ttl, packet_id, sockVars, now, selectUntil, packet, result,
                   obs, timeout_count, sleeps, answered>>

PingGuard == mode = "ping" /\ RecvGuard

PingArm == mode = "ping" /\ RecvArm

PingNotReady == mode = "ping" /\ RecvNotReady

\* if ready[0]: packet, addr = sock.recvfrom(1024); icmp_header = packet[20:28]
\* type, code, checksum, packet_id, sequence = struct.unpack('!BBHHH', icmp_header)
\* if type == 0 and packet_id == id: return addr, rtt
PingRecv ==
    /\ mode = "ping"
    /\ pc = "select"
    /\ \E p \in Arrivals :
         /\ packet' = p
         /\ IF UnpackFails(p) THEN RecvRaise
            ELSE IF PingQualifies(p, packet_id) THEN RecvReturn("Reply", p)
            ELSE RecvContinue
    /\ UNCHANGED <<params, callVars,
                   error, i, ttl, packet_id, sockVars, sent, now, obs, timeout_count,
                   sleeps, answered>>

\* Variant of PingReport: a timeout is not reported.
PingReportSilentTimeout ==
    /\ mode = "ping"
    /\ pc = "report"
    /\ obs' = IF result.kind = "TimedOut" THEN obs ELSE Append(obs, result.kind)
    /\ result' = NoResult
    /\ packet' = NoPacket
    /\ pc' = "sleep"
    /\ UNCHANGED <<params, callVars, error, i, ttl, packet_id, sockVars, sent, now, time_received,
                   selectUntil, timeout_count, sleeps, answered>>

\* if result is None: print("Request timeout ...") else: print("Reply from ...")
PingReport ==
    /\ mode = "ping"
    /\ pc = "report"
    /\ obs' = Append(obs, result.kind)
    /\ result' = NoResult
    /\ packet' = NoPacket
    /\ pc' = "sleep"
    /\ UNCHANGED <<params, callVars, error, i, ttl, packet_id, sockVars, sent, now, time_received,
                   selectUntil, timeout_count, sleeps, answered>>

\* Variant of PingSleep: no sleep after the last attempt.
PingSleepExceptLast ==
    /\ mode = "ping"
    /\ IF PingMore
       THEN Sleep
       ELSE /\ pc = "sleep"
            /\ pc' = "loop"
            /\ UNCHANGED <<params, callVars, error, i, ttl, packet_id, sockVars, sent, now,
                           recvLocals, result, obs, timeout_count, sleeps, answered>>

PingSleep == mode = "ping" /\ Sleep

\* the loop is exhausted: print("Ping to ... completed."); sock.close()
PingClose ==
    /\ mode = "ping"
    /\ pc = "loop"
    /\ ~PingMore
    /\ CloseSocket
    /\ pc' = "done"
    /\ UNCHANGED <<params, callVars, error, i, ttl, packet_id, sent, now, recvLocals, result, obs,
                   timeout_count, sleeps, answered>>

----------------------------------------------------------------------------
(* traceroute *)

TrSocket == mode = "traceroute" /\ \E ok \in BOOLEAN : OpenSocket(ok)

TrResolve ==
    mode = "traceroute" /\ \E ok \in BOOLEAN, id \in 1..MaxId : ResolveHost(ok, id)

\* for ttl in range(1, max_hops + 1): is there another iteration?
TrMore == ttl < max_hops

\* Variant of NextTtl: the TTL grows by two.
NextTtlSkips == ttl + 2

\* for ttl in range(1, max_hops + 1): the next value of ttl
NextTtl == ttl + 1

\* sock.setsockopt(socket.IPPROTO_IP, socket.IP_TTL, ttl)
SetTtl(t) == t

\* for ttl in range(1, max_hops + 1): sock.setsockopt(IPPROTO_IP, IP_TTL, ttl)
\* packet = create_packet(...); sock.sendto(...)
\* receive_traceroute(...)  ->  time_received = time.time()
TrSend ==
    /\ mode = "traceroute"
    /\ pc = "loop"
    /\ TrMore
    /\ ttl' = NextTtl
    /\ sockTtl' = SetTtl(ttl')
    /\ sent' = SendTo(sockTtl')
    /\ time_received' = now
    /\ pc' = "guard"
    /\ UNCHANGED <<params, callVars, error, i, packet_id, sockOpen, opens, closes, now, selectUntil,
                   packet, result, obs, timeout_count, sleeps, answered>>

\* the range is exhausted: fall out of the loop
TrLoopEnd ==
    /\ mode = "traceroute"
    /\ pc = "loop"
    /\ ~TrMore
    /\ pc' = "finish"
    /\ UNCHANGED <<params, callVars,
                   error, i, ttl, packet_id, sockVars, sent, now, recvLocals, result,
                   obs, timeout_count, sleeps, answered>>

TrGuard == mode = "traceroute" /\ RecvGuard

TrArm == mode = "traceroute" /\ RecvArm

TrNotReady == mode = "traceroute" /\ RecvNotReady

\* if ready[0]: packet, addr = sock.recvfrom(1024); icmp_header = packet[20:28]
\* ... = struct.unpack('!BBHHH', icmp_header)
\* if packet_id != id or packet_id == id:
\*     if type == 0: return addr, rtt, True   elif type == 11: return addr, rtt, False
TrRecv ==
    /\ mode = "traceroute"
    /\ pc = "select"
    /\ \E p \in Arrivals :
         /\ packet' = p
         /\ answered' = IF net = "path" THEN Len(sent) ELSE answered
         /\ IF UnpackFails(p) THEN RecvRaise
            ELSE IF TrClassify(p, packet_id) # "none"
            THEN RecvReturn(TrClassify(p, packet_id), p)
            ELSE RecvContinue
    /\ UNCHANGED <<params, callVars,
                   error, i, ttl, packet_id, sockVars, sent, now, obs, timeout_count,
                   sleeps>>

\* Variant of TrBreaks: the break is missing.
TrBreaksNever(r) == FALSE

\* `if reached: ... break`
TrBreaks(r) == r.kind = "Reply"

\* Variant of TrCount: every hop that is not the destination is counted.
TrCountUnreached(r) ==
    IF r.kind # "Reply"
    THEN [timeout_count EXCEPT ![ttl] = @ + 1]
    ELSE timeout_count

\* `else: print("Request Timed Out"); timeout_count[ttl] += 1`
TrCount(r) ==
    IF r.kind = "TimedOut"
    THEN [timeout_count EXCEPT ![ttl] = @ + 1]
    ELSE timeout_count

\* The loop's branch on what receive_traceroute returned: `if addr:` (print the
\* hop; `if reached: break`, else "Time Exceeded."), `else:` count the timeout.
TrReport ==
    /\ mode = "traceroute"
    /\ pc = "report"
    /\ obs' = Append(obs, result.kind)
    /\ timeout_count' = TrCount(result)
    /\ pc' = IF TrBreaks(result) THEN "finish" ELSE "sleep"
    /\ result' = NoResult
    /\ packet' = NoPacket
    /\ UNCHANGED <<params, callVars, error, i, ttl, packet_id, sockVars, sent, now, time_received,
                   selectUntil, sleeps, answered>>

TrSleep == mode = "traceroute" /\ Sleep

\* after the loop: the optional summary, then sock.close()
TrClose ==
    /\ mode = "traceroute"
    /\ pc = "finish"
    /\ CloseSocket
    /\ pc' = "done"
    /\ UNCHANGED <<params, callVars, error, i, ttl, packet_id, sent, now, recvLocals, result, obs,
                   timeout_count, sleeps, answered>>

----------------------------------------------------------------------------
(* Environment *)

InReceive == pc \in {"guard", "arm", "select"}

\* The clock advances while a receive call is in progress (only differences to
\* time_received are ever read).  A pending select gives up at selectUntil.
\* On a "path" every answer is delivered and handled within the timeout.
Tick ==
    /\ InReceive
    /\ now < MaxTime
    /\ pc = "select" => now < selectUntil
    /\ net = "path" => now + 1 - time_received < timeout
    /\ now' = now + 1
    /\ UNCHANGED <<params, callVars,
                   error, pc, i, ttl, packet_id, sockVars, sent, recvLocals, result,
                   obs, timeout_count, sleeps, answered>>

----------------------------------------------------------------------------
Next ==
    \/ PingSocket \/ PingResolve \/ PingSend \/ PingGuard \/ PingArm
    \/ PingNotReady \/ PingRecv \/ PingReport \/ PingSleep \/ PingClose
    \/ TrSocket \/ TrResolve \/ TrSend \/ TrLoopEnd \/ TrGuard \/ TrArm
    \/ TrNotReady \/ TrRecv \/ TrReport \/ TrSleep \/ TrClose
    \/ Tick

Spec == Init /\ [][Next]_vars

----------------------------------------------------------------------------
(* Single calls of checksum and of create_packet *)

\* The byte values buffers are made of: the extremes and the two middles.
SomeBytes == {0, 1, ByteRange \div 2, ByteRange - 1}

\* The buffers handed to checksum: every sequence of these bytes up to MaxLen.
Buffers == UNION {[1..n -> SomeBytes] : n \in 0..MaxLen}

\* The identifiers handed to create_packet: 16-bit values around the byte borders.
SomeIds == {0, 1, ByteRange - 1, ByteRange, Mask16 - ByteRange, Mask16}

\* The payload sizes handed to create_packet: small ones, and ones past 256.
DataSizes == 0..MaxDataSize \cup {ByteRange + k : k \in 0..MaxDataSize}

InitCall ==
    /\ mode \in {"checksum", "create_packet"}
    /\ IF mode = "checksum"
       THEN \E b \in Buffers : args = [source_string |-> b, id |-> 0, data_size |-> 0]
       ELSE \E d \in SomeIds, n \in DataSizes :
                args = [source_string |-> <<>>, id |-> d, data_size |-> n]
    /\ ret = NoReturn
    /\ pc = "call"
    /\ net = "any"
    /\ dest = 0
    /\ count = 0
    /\ timeout = 0
    /\ error = "none"
    /\ i = -1
    /\ ttl = 0
    /\ packet_id = 0
    /\ sockOpen = FALSE
    /\ opens = 0
    /\ closes = 0
    /\ sockTtl = 0
    /\ sent = <<>>
    /\ now = 0
    /\ time_received = 0
    /\ selectUntil = 0
    /\ packet = NoPacket
    /\ result = NoResult
    /\ obs = <<>>
    /\ timeout_count = [t \in 1..max_hops |-> 0]
    /\ sleeps = 0
    /\ answered = 0

\* Where a call ends: at its return, or at the exception it raised.
Outcome(r) == IF r.raised THEN "raised" ELSE "returned"

CallChecksum ==
    /\ mode = "checksum"
    /\ pc = "call"
    /\ ret' = checksum(args.source_string)
    /\ pc' = Outcome(ret')
    /\ UNCHANGED <<params, args, error, i, ttl, packet_id, sockVars, sent, now, recvLocals,
                   result, obs, timeout_count, sleeps, answered>>

CallCreatePacket ==
    /\ mode = "create_packet"
    /\ pc = "call"
    /\ ret' = create_packet(args.id, args.data_size)
    /\ pc' = Outcome(ret')
    /\ UNCHANGED <<params, args, error, i, ttl, packet_id, sockVars, sent, now, recvLocals,
                   result, obs, timeout_count, sleeps, answered>>

NextCall == CallChecksum \/ CallCreatePacket

SpecCall == InitCall /\ [][NextCall]_vars

----------------------------------------------------------------------------
(* Properties *)

\* The attempts that have been observed, as a set of outcomes.
Outcomes == {obs[k] : k \in 1..Len(obs)}

\* C1: in ping, once the socket is open and the host resolved, the loop sends
\* once per attempt and never more than count times, and when it has run to its
\* end it has sent exactly count packets, whatever mix of replies and timeouts
\* the attempts produced.
C1_PingSendsExactlyCount ==
    mode = "ping" =>
        /\ Len(sent) = i + 1
        /\ Len(sent) <= count
        /\ pc = "done" => Len(sent) = count /\ Len(obs) = count

\* A finished ping of two attempts, one answered and one timed out.
C1_Witness ==
    /\ mode = "ping"
    /\ pc = "done"
    /\ count = 2
    /\ Len(sent) = 2
    /\ Outcomes = {"Reply", "TimedOut"}

\* C2 (as stated): a ping of count = N >= 1 attempts sleeps exactly N - 1 times,
\* and never sleeps after the observation of attempt N.
C2_SleepsBetweenOnly ==
    mode = "ping" =>
        /\ pc = "done" /\ count >= 1 => sleeps = count - 1
        /\ pc = "sleep" => Len(obs) < count

\* C2 (amended): ping sleeps once after every attempt, the last included: each
\* observation is followed by one sleep before the loop goes on, and a ping of
\* count = N attempts that has run to its end has slept exactly N times.
C2_SleepsAfterEveryAttempt ==
    mode = "ping" =>
        /\ sleeps = IF pc = "sleep" THEN Len(obs) - 1 ELSE Len(obs)
        /\ pc = "done" => sleeps = count

\* A finished ping of two attempts that has slept twice.
C2_Witness ==
    /\ mode = "ping"
    /\ pc = "done"
    /\ count = 2
    /\ Len(obs) = 2
    /\ sleeps = 2

\* C3: in traceroute the k-th packet sent carries TTL k, no packet carries a
\* TTL above 30, nothing is sent after an attempt observed as Reply, and a run
\* that has come to its end stopped on a Reply or after the attempt with TTL 30.
C3_TtlSequence ==
    mode = "traceroute" =>
        /\ \A k \in 1..Len(sent) : sent[k].ttl = k
        /\ Len(sent) <= 30
        /\ \A k \in 1..Len(obs) : obs[k] = "Reply" => Len(sent) = k
        /\ pc \in {"finish", "done"} =>
              /\ Len(obs) = Len(sent)
              /\ Len(sent) >= 1
              /\ obs[Len(obs)] = "Reply" \/ Len(sent) = 30

\* A traceroute that ended after TTL 30 without ever seeing a Reply.
C3_Witness ==
    /\ mode = "traceroute"
    /\ net = "any"
    /\ pc = "done"
    /\ Len(sent) = 30
    /\ sent[30].ttl = 30
    /\ "Reply" \notin Outcomes

\* C4 (as stated): on every exit of ping and traceroute (the loop ran to its
\* end, the destination was reached, the host could not be resolved) a socket
\* that was opened has been closed exactly once.
C4_ClosedOnEveryExit ==
    pc \in {"done", "aborted"} => closes = opens /\ ~sockOpen

\* C5: when the socket cannot be opened or the host cannot be resolved, the run
\* is over at once: nothing was sent, no attempt was started (no receive, no
\* observation, no sleep), and nothing happens afterwards.
C5_AbortSendsNothing ==
    error # "none" =>
        /\ pc = "aborted"
        /\ sent = <<>>
        /\ obs = <<>>
        /\ sleeps = 0
        /\ i = -1 /\ ttl = 0
        /\ result = NoResult /\ packet = NoPacket

\* A run aborted by a failed resolution, its socket open.
C5_Witness ==
    /\ error = "ResolutionFailed"
    /\ pc = "aborted"
    /\ opens = 1

\* C6: receive_ping and receive_traceroute never wait past the deadline fixed at
\* entry: every select is armed to give up at time_received + timeout and is
\* pending only up to that instant, and reading packets that do not qualify
\* never moves time_received during the call.
C6_WaitBoundedByDeadline ==
    /\ [](pc = "select" =>
             /\ selectUntil = time_received + timeout
             /\ now <= time_received + timeout)
    /\ [][InReceive /\ InReceive' => time_received' = time_received]_vars

\* A select armed again, with time left, after a packet that did not qualify
\* was read some time into the call.
C6_Witness ==
    /\ pc = "select"
    /\ packet # NoPacket
    /\ time_received < now
    /\ now < selectUntil

\* C7: the timed-out result is returned no earlier than timeout after the wait
\* began, whether or not select returned early or packets that do not qualify
\* were read in between.
C7_NoEarlyTimeout ==
    [][result'.kind = "TimedOut" /\ result.kind # "TimedOut"
          => now - time_received >= timeout]_vars

\* A call with a positive timeout that timed out after reading a packet that
\* did not qualify.
C7_Witness ==
    /\ pc = "report"
    /\ result.kind = "TimedOut"
    /\ timeout >= 1
    /\ packet # NoPacket

\* The packet carries a whole ICMP header, of type 0 and with the run's identifier.
MatchingReply(p) == p.len >= 28 /\ p.type = 0 /\ p.id = packet_id

\* C8: receive_ping returns a reply only for a packet of type 0 with the run's
\* identifier; the read of any other packet that has an ICMP header produces no
\* observation and leads back to the wait, its deadline unchanged.
C8_PingReplyOnlyForMatch ==
    /\ [](mode = "ping" /\ result.kind = "Reply" => MatchingReply(packet))
    /\ [][mode = "ping" /\ pc = "select" /\ pc' # "select"
              /\ packet'.len >= 28 /\ ~MatchingReply(packet')
            => /\ pc' = "guard"
               /\ UNCHANGED <<result, obs, sent, time_received>>]_vars

\* ping waits on after consuming an Echo Reply that carries another identifier.
C8_Witness ==
    /\ mode = "ping"
    /\ pc = "guard"
    /\ packet.len >= 28
    /\ packet.type = 0
    /\ packet.id # packet_id
    /\ Len(obs) < Len(sent)

\* C9 (as stated): in traceroute a packet whose identifier differs from the
\* run's never produces a Reply or Exceeded observation.
C9_TrIgnoresOtherIds ==
    mode = "traceroute" /\ result.kind \in {"Reply", "Exceeded"}
        => packet.id = packet_id

\* C10: on a path whose hops 1..k-1 answer with type 11 and whose hop k <= 30
\* answers with type 0, each in time and with no other traffic, traceroute
\* sends TTLs 1, 2, ... in order and never beyond k, observes Exceeded for the
\* attempts before k and Reply for attempt k, never fails, and ends after
\* exactly k attempts.
C10_PathOfHops ==
    net = "path" =>
        /\ pc # "raised"
        /\ Len(sent) <= dest
        /\ \A j \in 1..Len(sent) : sent[j].ttl = j
        /\ \A j \in 1..Len(obs) : obs[j] = IF j < dest THEN "Exceeded" ELSE "Reply"
        /\ pc = "done" => Len(sent) = dest /\ Len(obs) = dest

\* The three-hop path, run to its end.
C10_Witness ==
    /\ net = "path"
    /\ dest = 3
    /\ pc = "done"
    /\ Len(sent) = 3
    /\ obs = <<"Exceeded", "Exceeded", "Reply">>

\* C11: every attempt yields exactly one observation before the next attempt
\* starts: the observations number the packets sent, less the one attempt whose
\* receive call is still in progress (or was ended by an exception).  When no
\* answer ever arrives, every observation is a timeout, and a ping that ran its
\* count attempts has printed exactly count timeouts and no reply.
C11_OneObservationPerAttempt ==
    /\ Len(obs) = IF InReceive \/ pc \in {"report", "raised"}
                  THEN Len(sent) - 1
                  ELSE Len(sent)
    /\ net = "noreply" =>
           /\ \A k \in 1..Len(obs) : obs[k] = "TimedOut"
           /\ mode = "ping" /\ pc = "done" => Len(obs) = count

\* Two attempts of a ping that gets no answer, both timed out after a real wait.
C11_Witness ==
    /\ mode = "ping"
    /\ net = "noreply"
    /\ pc = "done"
    /\ count = MaxCount
    /\ timeout >= 1
    /\ Len(sent) = count
    /\ obs = [k \in 1..count |-> "TimedOut"]

\* A buffer padded to an even length: an odd last byte becomes the high byte
\* of a trailing word.
Padded(s) == IF Len(s) % 2 = 1 THEN Append(s, 0) ELSE s

\* The carry-folded sum of the big-endian 16-bit words of a buffer.
OnesSum(s) == Fold(WordSum(Padded(s), 0, Len(Padded(s))))

\* The Internet checksum of a buffer.
InternetChecksum(s) == 65535 - OnesSum(s)

\* C12: for every byte buffer (even length, odd length, empty) checksum never
\* fails and returns the Internet checksum of the buffer, the last byte of an
\* odd-length buffer counting as the high byte of a trailing word; the
\* checksum of the empty buffer is 0xFFFF.
C12_StandardChecksum ==
    mode = "checksum" =>
        /\ pc # "raised"
        /\ pc = "returned" =>
               /\ ret.sum = InternetChecksum(args.source_string)
               /\ args.source_string = <<>> => ret.sum = 65535

\* C13: for every identifier and every payload size, even or odd, the words of
\* the packet create_packet returns, checksum field included and an odd last
\* byte padded as a high byte, sum and fold to 0xFFFF.
C13_PacketValidates ==
    mode = "create_packet" /\ pc = "returned" => OnesSum(ret.packet) = 65535

\* C14: for every 16-bit identifier and every payload size L >= 0,
\* create_packet does not fail and returns 8 + L bytes: type 8, code 0, the
\* identifier in bytes 4..5, sequence 1 in bytes 6..7, and i mod 256 as the
\* payload byte at offset 8 + i.
C14_PacketLayout ==
    mode = "create_packet" =>
        /\ pc # "raised"
        /\ pc = "returned" =>
               LET p == ret.packet
                   L == args.data_size
               IN  /\ Len(p) = 8 + L
                   /\ \A k \in 1..Len(p) : p[k] \in 0..255
                   /\ p[1] = 8
                   /\ p[2] = 0
                   /\ (p[5] * 256) + p[6] = args.id
                   /\ (p[7] * 256) + p[8] = 1
                   /\ \A k \in 0..(L - 1) : p[8 + k + 1] = k % 256

\* A packet whose payload is odd and longer than 256 bytes, for the largest
\* identifier.
C14_Witness ==
    /\ mode = "create_packet"
    /\ pc = "returned"
    /\ args.id = 65535
    /\ args.data_size > 256
    /\ args.data_size % 2 = 1
    /\ Len(ret.packet) = 8 + args.data_size
    /\ ret.packet[Len(ret.packet)] = (args.data_size - 1) - 256

\* C15: in traceroute the unanswered-probe counter of TTL t is, at every point
\* of the run, the number of timeouts observed at TTL t: 1 if the attempt at
\* TTL t has been observed and timed out, 0 if it was answered (Reply or
\* Exceeded) and 0 if TTL t has not been probed.
C15_CounterMatchesTimeouts ==
    mode = "traceroute" =>
        \A t \in 1..max_hops :
            timeout_count[t] = IF t <= Len(obs) /\ obs[t] = "TimedOut" THEN 1 ELSE 0

\* A finished traceroute with an answered hop, a timed-out hop and later hops
\* never probed.
C15_Witness ==
    /\ mode = "traceroute"
    /\ pc = "done"
    /\ obs = <<"Exceeded", "TimedOut", "Reply">>
    /\ timeout_count[1] = 0
    /\ timeout_count[2] = 1
    /\ timeout_count[3] = 0
    /\ timeout_count[max_hops] = 0

\* C16: a packet shorter than 28 bytes read by receive_ping or
\* receive_traceroute is ignored: the read does not end the run with an
\* exception, and it does not end the receive call with an answer.
C16_ShortPacketIgnored ==
    packet # NoPacket /\ packet.len < 28 =>
        /\ pc # "raised"
        /\ result.kind \in {"none", "TimedOut"}

\* C17: a run that got past its set-up ends only by its loop: a ping after
\* count attempts, a traceroute after at most 30 attempts, at the destination's
\* reply or at the last TTL; never by anything else.
C17_EndsByItsLoopOnly ==
    pc \in {"done", "raised"} =>
        /\ pc = "done"
        /\ mode = "ping" => Len(sent) = count /\ Len(obs) = count
        /\ mode = "traceroute" =>
               /\ Len(sent) <= 30
               /\ \/ Len(sent) = 30
                  \/ Len(obs) >= 1 /\ obs[Len(obs)] = "Reply"

\* C18: the answer that ends the receive call of attempt k is never a late
\* answer to the request of an earlier attempt of the run that had timed out.
C18_NoLateAnswer ==
    result.kind \in {"Reply", "Exceeded"} =>
        ~(result.probe \in 1..Len(obs) /\ obs[result.probe] = "TimedOut")

\* C19: when select is about to be called, the remaining time computed for
\* it, timeout - (time.time() - time_received), is not negative.
C19_SelectTimeoutNotNegative ==
    pc = "arm" => Remaining >= 0

====
